---- MODULE Spec2Model ----
(***************************************************************************)
(* A model of dart-score (src/index.js): the report driver `main`, the     *)
(* four checks it sequences, the command runner and the output parsers.    *)
(*                                                                         *)
(* Texts are TLA+ strings; the parsers work on them character by           *)
(* character (SubSeq, Len and \o on strings), the way the regular          *)
(* expressions and string methods of the source do.                        *)
(***************************************************************************)
EXTENDS Integers, Sequences, FiniteSets, TLC

VARIABLES
    \* ---- the run of main -------------------------------------------------
    pc,         \* position of main: "start", "doc", "analyze", "format",
                \* "outdated", "addpkg", "platform", "finish", and the final
                \* "done" (returned), "exited" (process.exit), "thrown"
    argc,       \* process.argv.slice(2).length
    present,    \* the required files that exist in the target directory
    manifest,   \* pubspec.yaml: [exists, loads, description]
    out,        \* lines written with console.log, in order
    errOut,     \* lines written with console.error, in order
    exitCode,   \* -1 while running, else the status the process ends with
    cmds,       \* the commands handed to execSync, in order
    procs,      \* what each subprocess did: [status, stdout, stderr]
    rets,       \* what each executeCommandSync call gave its caller
    foundFiles, \* main's foundFiles
    missingFiles, \* main's missingFiles
    osIdx,      \* index into osList of the platform loop
    \* ---- the parsers called on their own ---------------------------------
    fn,         \* the parser under call
    frags,      \* the pieces its input text is made of
    result      \* what it returned (-1: not called yet)

vars == <<pc, argc, present, manifest, out, errOut, exitCode, cmds, procs, rets,
          foundFiles, missingFiles, osIdx, fn, frags, result>>

runVars == <<pc, argc, present, manifest, out, errOut, exitCode, cmds, procs,
             rets, foundFiles, missingFiles, osIdx>>

unitVars == <<fn, frags, result>>

-----------------------------------------------------------------------------
(* Bounds of the model *)

\* the longest parser input, in pieces
MaxFrags == 5

\* the most command-line arguments tried
MaxArgs == 2

-----------------------------------------------------------------------------
(* Strings *)

CharAt(s, i) == SubSeq(s, i, i)

Digits == {"0", "1", "2", "3", "4", "5", "6", "7", "8", "9"}

DigitVal(c) ==
    CASE c = "0" -> 0 [] c = "1" -> 1 [] c = "2" -> 2 [] c = "3" -> 3
      [] c = "4" -> 4 [] c = "5" -> 5 [] c = "6" -> 6 [] c = "7" -> 7
      [] c = "8" -> 8 [] c = "9" -> 9

\* what the `i` flag of a regular expression folds
toLowerCase(c) ==
    CASE c = "A" -> "a" [] c = "B" -> "b" [] c = "C" -> "c" [] c = "D" -> "d"
      [] c = "E" -> "e" [] c = "F" -> "f" [] c = "G" -> "g" [] c = "H" -> "h"
      [] c = "I" -> "i" [] c = "J" -> "j" [] c = "K" -> "k" [] c = "L" -> "l"
      [] c = "M" -> "m" [] c = "N" -> "n" [] c = "O" -> "o" [] c = "P" -> "p"
      [] c = "Q" -> "q" [] c = "R" -> "r" [] c = "S" -> "s" [] c = "T" -> "t"
      [] c = "U" -> "u" [] c = "V" -> "v" [] c = "W" -> "w" [] c = "X" -> "x"
      [] c = "Y" -> "y" [] c = "Z" -> "z" [] OTHER -> c

RECURSIVE FoldCase(_)
FoldCase(s) ==
    IF Len(s) = 0 THEN ""
    ELSE toLowerCase(CharAt(s, 1)) \o FoldCase(SubSeq(s, 2, Len(s)))

\* the literal `lit` stands in s at position i (ci: ignoring case)
LitAt(s, i, lit, ci) ==
    /\ i >= 1
    /\ i + Len(lit) - 1 <= Len(s)
    /\ LET piece == SubSeq(s, i, i + Len(lit) - 1)
       IN  IF ci THEN FoldCase(piece) = FoldCase(lit) ELSE piece = lit

\* String.prototype.includes
includes(s, lit) == \E i \in 1..(Len(s) + 1) : LitAt(s, i, lit, FALSE)

WhiteSpace == {" ", "\t", "\n", "\r"}

RECURSIVE trimStart(_)
trimStart(s) ==
    IF Len(s) > 0 /\ CharAt(s, 1) \in WhiteSpace
    THEN trimStart(SubSeq(s, 2, Len(s)))
    ELSE s

RECURSIVE trimEnd(_)
trimEnd(s) ==
    IF Len(s) > 0 /\ CharAt(s, Len(s)) \in WhiteSpace
    THEN trimEnd(SubSeq(s, 1, Len(s) - 1))
    ELSE s

\* String.prototype.trim
trim(s) == trimEnd(trimStart(s))

\* String.prototype.split('\n'): the pieces between line feeds, so that the
\* empty string gives one empty piece
RECURSIVE splitLines(_, _, _)
splitLines(s, i, cur) ==
    IF i > Len(s) THEN <<cur>>
    ELSE IF CharAt(s, i) = "\n"
         THEN <<cur>> \o splitLines(s, i + 1, "")
         ELSE splitLines(s, i + 1, cur \o CharAt(s, i))

\* how many digits stand in s from position p on
RECURSIVE DigitRunLen(_, _)
DigitRunLen(s, p) ==
    IF p <= Len(s) /\ CharAt(s, p) \in Digits
    THEN 1 + DigitRunLen(s, p + 1)
    ELSE 0

\* parseInt of a string of decimal digits
RECURSIVE parseIntFrom(_, _, _)
parseIntFrom(s, i, acc) ==
    IF i > Len(s) \/ CharAt(s, i) \notin Digits THEN acc
    ELSE parseIntFrom(s, i + 1, 10 * acc + DigitVal(CharAt(s, i)))

parseInt(s) == parseIntFrom(s, 1, 0)

SetMax(S) == CHOOSE x \in S : \A y \in S : y <= x

RECURSIVE Concat(_)
Concat(fs) == IF fs = <<>> THEN "" ELSE Head(fs) \o Concat(Tail(fs))

-----------------------------------------------------------------------------
(* getNumberOfAnalysisIssue: /(\d+) issues? found/gi, then /\d+/ and       *)
(* parseInt on every match, summed.                                        *)

\* " issues? found" (ignoring case) at q: the position after it, or 0
IssueTailEnd(s, q) ==
    IF ~LitAt(s, q, " issue", TRUE) THEN 0
    ELSE IF LitAt(s, q + 6, "s", TRUE) /\ LitAt(s, q + 7, " found", TRUE)
         THEN q + 13
         ELSE IF LitAt(s, q + 6, " found", TRUE) THEN q + 12 ELSE 0

\* the whole pattern at p: \d+ takes the longest run of digits that lets the
\* rest match; the position after the match, or 0
IssueMatchEnd(s, p) ==
    LET d == DigitRunLen(s, p)
        ks == {k \in 1..d : IssueTailEnd(s, p + k) > 0}
    IN  IF ks = {} THEN 0 ELSE IssueTailEnd(s, p + SetMax(ks))

\* String.prototype.match with the g flag: the matched pieces from left to
\* right, each search starting where the last match ended (<<>> for null)
RECURSIVE IssueMatches(_, _)
IssueMatches(s, from) ==
    IF from > Len(s) THEN <<>>
    ELSE LET e == IssueMatchEnd(s, from)
         IN  IF e > 0
             THEN <<SubSeq(s, from, e - 1)>> \o IssueMatches(s, e)
             ELSE IssueMatches(s, from + 1)

\* match(/\d+/) on one piece: its first run of digits ("" for null)
RECURSIVE FirstDigits(_, _)
FirstDigits(m, p) ==
    IF p > Len(m) THEN ""
    ELSE IF DigitRunLen(m, p) > 0
         THEN SubSeq(m, p, p + DigitRunLen(m, p) - 1)
         ELSE FirstDigits(m, p + 1)

RECURSIVE AddIssueCounts(_, _)
AddIssueCounts(matches, totalIssues) ==
    IF matches = <<>> THEN totalIssues
    ELSE LET countMatch == FirstDigits(Head(matches), 1)
         IN  AddIssueCounts(Tail(matches),
                 IF countMatch # "" THEN totalIssues + parseInt(countMatch)
                 ELSE totalIssues)

\* the pattern without its g flag: only the first match is counted
getNumberOfAnalysisIssueFirstMatch(output) ==
    LET matches == IssueMatches(output, 1)
    IN  AddIssueCounts(IF matches = <<>> THEN <<>> ELSE <<Head(matches)>>, 0)

getNumberOfAnalysisIssue(output) ==
    AddIssueCounts(IssueMatches(output, 1), 0)

-----------------------------------------------------------------------------
(* parseOutdatedPackagesOutput *)

RECURSIVE CountUpgradable(_, _)
CountUpgradable(lines, upgradableCount) ==
    IF lines = <<>> THEN upgradableCount
    ELSE LET line == trim(Head(lines))
         IN  IF ~includes(line, "*")
             THEN CountUpgradable(Tail(lines), upgradableCount)
             ELSE IF includes(line, "*") /\ Len(trim(line)) > 0
                  THEN CountUpgradable(Tail(lines), upgradableCount + 1)
                  ELSE CountUpgradable(Tail(lines), upgradableCount)

\* the marker test left out: every line that is not empty is counted
parseOutdatedPackagesOutputAnyLine(output) ==
    LET lines == splitLines(trim(output), 1, "")
    IN  Cardinality({i \in 1..Len(lines) : Len(trim(lines[i])) > 0})

parseOutdatedPackagesOutput(output) ==
    CountUpgradable(splitLines(trim(output), 1, ""), 0)

-----------------------------------------------------------------------------
(* countNotSupportedPackages: /(\d+) packages doesn't support/, the first  *)
(* match only, case kept.                                                  *)

SupportPhrase == " packages doesn't support"

\* the pattern at p: the length of the group (\d+), or 0 when it does not
\* match there
SupportGroupLen(s, p) ==
    LET d == DigitRunLen(s, p)
        ks == {k \in 1..d : LitAt(s, p + k, SupportPhrase, FALSE)}
    IN  IF ks = {} THEN 0 ELSE SetMax(ks)

\* the leftmost position the pattern matches at, or 0
RECURSIVE SupportMatchPos(_, _)
SupportMatchPos(s, from) ==
    IF from > Len(s) THEN 0
    ELSE IF SupportGroupLen(s, from) > 0 THEN from
         ELSE SupportMatchPos(s, from + 1)

\* every match counted and summed, as getNumberOfAnalysisIssue does
RECURSIVE SupportSum(_, _)
SupportSum(s, from) ==
    LET p == SupportMatchPos(s, from)
    IN  IF p = 0 THEN 0
        ELSE parseInt(SubSeq(s, p, p + SupportGroupLen(s, p) - 1))
               + SupportSum(s, p + SupportGroupLen(s, p) + Len(SupportPhrase))

countNotSupportedPackagesSummed(input) == SupportSum(input, 1)

countNotSupportedPackages(input) ==
    LET p == SupportMatchPos(input, 1)
    IN  IF p > 0
        THEN parseInt(SubSeq(input, p, p + SupportGroupLen(input, p) - 1))
        ELSE 0

-----------------------------------------------------------------------------
(* The parsers called on their own, on texts put together from pieces.     *)

Parsers == {"getNumberOfAnalysisIssue", "parseOutdatedPackagesOutput",
            "countNotSupportedPackages"}

IssuePhrases == {" issues found", " issue found"}
IssuePhrasesAnyCase == IssuePhrases \cup {" ISSUES Found"}

Pieces(f) ==
    CASE f = "getNumberOfAnalysisIssue" ->
             {"1", "2", "x"} \cup IssuePhrasesAnyCase
      [] f = "parseOutdatedPackagesOutput" ->
             {"*", "a", " ", "\n"}
      [] f = "countNotSupportedPackages" ->
             {"1", "2", "x", SupportPhrase, " Packages doesn't support"}

SeqsUpTo(S, n) == UNION {[1..k -> S] : k \in 0..n}

UnitIdle ==
    /\ fn = "none"
    /\ frags = <<>>
    /\ result = -1

UnitInit ==
    /\ fn \in Parsers
    /\ frags \in SeqsUpTo(Pieces(fn), MaxFrags)
    /\ result = -1

CallGetNumberOfAnalysisIssue ==
    /\ fn = "getNumberOfAnalysisIssue"
    /\ result = -1
    /\ result' = getNumberOfAnalysisIssue(Concat(frags))
    /\ UNCHANGED <<fn, frags>>

CallParseOutdatedPackagesOutput ==
    /\ fn = "parseOutdatedPackagesOutput"
    /\ result = -1
    /\ result' = parseOutdatedPackagesOutput(Concat(frags))
    /\ UNCHANGED <<fn, frags>>

CallCountNotSupportedPackages ==
    /\ fn = "countNotSupportedPackages"
    /\ result = -1
    /\ result' = countNotSupportedPackages(Concat(frags))
    /\ UNCHANGED <<fn, frags>>

-----------------------------------------------------------------------------
(* Values of the program: a string, a Buffer, null, and (for an operator   *)
(* that stands for a function call) "throw" when the call raises.          *)

Str(t) == [kind |-> "string", text |-> t]
Buffer(t) == [kind |-> "buffer", text |-> t]
Null == [kind |-> "null", text |-> ""]
Thrown == [kind |-> "throw", text |-> ""]
NoValue == [kind |-> "none", text |-> ""]

\* What a subprocess can do: run and exit 0 ("ok"), run and exit non-zero
\* ("fail"), or not start at all ("spawn": the working directory is missing,
\* the shell cannot be forked).
Ran(st, o, e) == [status |-> st, stdout |-> o, stderr |-> e]
SpawnFailure == Ran("spawn", "", "")

\* child_process.execSync: the captured stdout when the command exits 0, else
\* it throws an error carrying the captured streams; when the process did not
\* start there is no output and both streams of the error are null.  With an
\* encoding the streams are strings, without one Buffers.
execSync(p, encoded) ==
    LET wrap(t) == IF encoded THEN Str(t) ELSE Buffer(t)
    IN  CASE p.status = "ok" ->
                 [threw |-> FALSE, value |-> wrap(p.stdout),
                  stdout |-> Null, stderr |-> Null]
          [] p.status = "fail" ->
                 [threw |-> TRUE, value |-> NoValue,
                  stdout |-> wrap(p.stdout), stderr |-> wrap(p.stderr)]
          [] p.status = "spawn" ->
                 [threw |-> TRUE, value |-> NoValue,
                  stdout |-> Null, stderr |-> Null]

\* the catch block reading the other stream: error.stdout for error.stderr
executeCommandSyncStdout(p, suppressOutput) ==
    LET r == execSync(p, ~suppressOutput)
    IN  IF ~r.threw THEN r.value ELSE r.stdout

\* executeCommandSync(command, cwd, suppressOutput), p being what the
\* subprocess for (command, cwd) does
executeCommandSync(p, suppressOutput) ==
    LET r == execSync(p, ~suppressOutput)
    IN  IF ~r.threw THEN r.value
        ELSE IF suppressOutput
             THEN IF r.stdout.kind = "null" THEN Thrown  \* null.toString()
                  ELSE Str(r.stdout.text)
             ELSE r.stderr

-----------------------------------------------------------------------------
(* checkDocumentation *)

REQUIRED_FILES == <<"README.md", "LICENSE", "CONTRIBUTING.md">>

MIN_DESCRIPTION_LENGTH == 60

RECURSIVE Repeat(_, _)
Repeat(c, n) == IF n = 0 THEN "" ELSE c \o Repeat(c, n - 1)

InSeq(x, s) == \E i \in 1..Len(s) : s[i] = x

\* pubspec.yaml as the check meets it: absent; present and loaded by
\* yaml.load as a mapping, with or without a description; present and not
\* loaded as one (yaml.load throws, or gives undefined for an empty file).
NoManifest ==
    [exists |-> FALSE, loads |-> FALSE, hasDescription |-> FALSE,
     description |-> ""]
BadManifest ==
    [exists |-> TRUE, loads |-> FALSE, hasDescription |-> FALSE,
     description |-> ""]
Manifest(has, d) ==
    [exists |-> TRUE, loads |-> TRUE, hasDescription |-> has,
     description |-> d]

SufficientLine == "   Description key found in pubspec.yaml."
InsufficientLine ==
    "   Could not find sufficient description found in pubspec.yaml."

\* the loop of lines 16-20 ending at the first file that is not there
FoundInUntilMissing(files) ==
    LET n == IF \A i \in 1..Len(REQUIRED_FILES) : REQUIRED_FILES[i] \in files
             THEN Len(REQUIRED_FILES)
             ELSE (CHOOSE i \in 1..Len(REQUIRED_FILES) :
                      /\ REQUIRED_FILES[i] \notin files
                      /\ \A j \in 1..(i - 1) : REQUIRED_FILES[j] \in files) - 1
    IN  SubSeq(REQUIRED_FILES, 1, n)

\* lines 13-20: the required files that exist, in the order of the list
FoundIn(files) == SelectSeq(REQUIRED_FILES, LAMBDA file : file \in files)

\* the threshold met with >= for >
DescriptionVerdictInclusive(m) ==
    LET description == IF m.hasDescription THEN m.description ELSE ""
    IN  IF Len(description) >= MIN_DESCRIPTION_LENGTH
        THEN SufficientLine ELSE InsufficientLine

\* lines 27-32: the line printed for the description of a loaded manifest
DescriptionVerdict(m) ==
    LET description == IF m.hasDescription THEN m.description ELSE ""
    IN  IF Len(description) > MIN_DESCRIPTION_LENGTH
        THEN SufficientLine ELSE InsufficientLine

\* what checkDocumentation(directory) does in a directory holding the files
\* `files` and the manifest m: the lines it prints and the list it returns,
\* or that it raises
checkDocumentation(files, m) ==
    IF ~m.exists
    THEN [threw |-> FALSE, lines |-> <<>>, foundFiles |-> FoundIn(files)]
    ELSE IF ~m.loads
         THEN [threw |-> TRUE, lines |-> <<>>, foundFiles |-> <<>>]
         ELSE [threw |-> FALSE, lines |-> <<DescriptionVerdict(m)>>,
               foundFiles |-> FoundIn(files)]

\* REQUIRED_FILES.filter(file => !foundFiles.includes(file))
MissingOf(found) == SelectSeq(REQUIRED_FILES, LAMBDA file : ~InSeq(file, found))

\* Array.prototype.join(', ')
RECURSIVE join(_)
join(xs) ==
    IF xs = <<>> THEN ""
    ELSE IF Len(xs) = 1 THEN Head(xs)
         ELSE Head(xs) \o ", " \o join(Tail(xs))

-----------------------------------------------------------------------------
(* The runs of main *)

UsageLine == "Usage: pub-score2.js <directory>"
StartBanner == "\nStarting analysis..."
FinishBanner == "\nAnalysis finished."

Manifests ==
    {NoManifest, BadManifest, Manifest(FALSE, "")}
    \cup {Manifest(TRUE, Repeat("d", n)) :
            n \in {0, MIN_DESCRIPTION_LENGTH - 1, MIN_DESCRIPTION_LENGTH,
                   MIN_DESCRIPTION_LENGTH + 1}}

RequiredSet == {REQUIRED_FILES[i] : i \in 1..Len(REQUIRED_FILES)}

RunInit ==
    /\ pc = "start"
    /\ argc \in 0..MaxArgs
    /\ present \in SUBSET RequiredSet
    /\ manifest \in Manifests
    /\ out = <<>>
    /\ errOut = <<>>
    /\ exitCode = -1
    /\ cmds = <<>>
    /\ procs = <<>>
    /\ rets = <<>>
    /\ foundFiles = <<>>
    /\ missingFiles = <<>>
    /\ osIdx = 0

RunIdle ==
    /\ pc = "idle"
    /\ argc = 0
    /\ present = {}
    /\ manifest = NoManifest
    /\ out = <<>>
    /\ errOut = <<>>
    /\ exitCode = -1
    /\ cmds = <<>>
    /\ procs = <<>>
    /\ rets = <<>>
    /\ foundFiles = <<>>
    /\ missingFiles = <<>>
    /\ osIdx = 0

\* the argument check written as `args.length < 1`
StartAtLeastOne ==
    /\ pc = "start"
    /\ IF argc < 1
       THEN /\ errOut' = Append(errOut, UsageLine)
            /\ exitCode' = 1
            /\ pc' = "exited"
            /\ out' = out
       ELSE /\ out' = Append(out, StartBanner)
            /\ pc' = "doc"
            /\ UNCHANGED <<errOut, exitCode>>
    /\ UNCHANGED <<argc, present, manifest, cmds, procs, rets, foundFiles,
                   missingFiles, osIdx>>

\* main, lines 169-174: the argument check and the start banner
Start ==
    /\ pc = "start"
    /\ IF argc # 1
       THEN /\ errOut' = Append(errOut, UsageLine)
            /\ exitCode' = 1
            /\ pc' = "exited"
            /\ out' = out
       ELSE /\ out' = Append(out, StartBanner)
            /\ pc' = "doc"
            /\ UNCHANGED <<errOut, exitCode>>
    /\ UNCHANGED <<argc, present, manifest, cmds, procs, rets, foundFiles,
                   missingFiles, osIdx>>

\* main, lines 177-183, with the call of checkDocumentation
CheckDocs ==
    /\ pc = "doc"
    /\ LET r == checkDocumentation(present, manifest)
           head == Append(out, "\n1. Checking required files and descriptions...")
                   \o r.lines
           missing == MissingOf(r.foundFiles)
       IN  IF r.threw
           THEN /\ pc' = "thrown"
                /\ out' = head
                /\ UNCHANGED <<foundFiles, missingFiles>>
           ELSE /\ pc' = "analyze"
                /\ foundFiles' = r.foundFiles
                /\ missingFiles' = missing
                /\ out' = head
                     \o <<"   Found " \o ToString(Len(r.foundFiles))
                            \o " documentation files">>
                     \o (IF Len(missing) > 0
                         THEN <<"   Missing documentation file(s): "
                                  \o join(missing) \o ".">>
                         ELSE <<>>)
    /\ UNCHANGED <<argc, present, manifest, errOut, exitCode, cmds, procs, rets,
                   osIdx>>

-----------------------------------------------------------------------------
(* runFlutterFormatAnalysis *)

AnalyzeErrorLine ==
    "   Some error occurred while executing flutter analyze command. Run 'flutter analyze' command in your project to check for issues."
AnalyzeNullLine ==
    "   Some error occurred while flutter analyze command. Run flutter analyze command in your project to check for issues."
AnalyzeHintLine ==
    "   Run 'flutter analyze' command in your project to check for issues."
NoIssuesLine == "   No analysis issues found."

\* the null test of line 93 left out: null falls in with the empty text
AnalyzeReportNoNullTest(flutterOutput) ==
    IF flutterOutput.text = ""
    THEN <<AnalyzeErrorLine>>
    ELSE LET issueCount == getNumberOfAnalysisIssue(flutterOutput.text)
         IN  IF issueCount > 0
             THEN <<"   Found " \o ToString(issueCount)
                      \o " analysis issues.", AnalyzeHintLine>>
             ELSE <<flutterOutput.text, NoIssuesLine>>

\* the lines the first half prints for what `flutter analyze` gave
AnalyzeReport(flutterOutput) ==
    IF flutterOutput.kind # "null"
    THEN IF flutterOutput.text = ""
         THEN <<AnalyzeErrorLine>>
         ELSE LET issueCount == getNumberOfAnalysisIssue(flutterOutput.text)
              IN  IF issueCount > 0
                  THEN <<"   Found " \o ToString(issueCount)
                           \o " analysis issues.", AnalyzeHintLine>>
                  ELSE <<flutterOutput.text, NoIssuesLine>>
    ELSE <<AnalyzeNullLine>>

\* the last position of the line that position q lies on ('.' of a regular
\* expression stops at a line terminator)
RECURSIVE LineEnd(_, _)
LineEnd(s, q) ==
    IF q > Len(s) \/ CharAt(s, q) \in {"\n", "\r"} THEN q - 1
    ELSE LineEnd(s, q + 1)

\* /Changed.*\.dart/i at p: '.*' runs to the last ".dart" of the line; the
\* position after the match, or 0
ChangedMatchEnd(s, p) ==
    IF ~LitAt(s, p, "Changed", TRUE) THEN 0
    ELSE LET e == LineEnd(s, p + 7)
             js == {j \in (p + 7)..(e - 4) : LitAt(s, j, ".dart", TRUE)}
         IN  IF js = {} THEN 0 ELSE SetMax(js) + 5

\* match(/Changed.*\.dart/gi): how many matches (0 for null)
RECURSIVE ChangedCount(_, _)
ChangedCount(s, from) ==
    IF from > Len(s) THEN 0
    ELSE LET e == ChangedMatchEnd(s, from)
         IN  IF e > 0 THEN 1 + ChangedCount(s, e)
             ELSE ChangedCount(s, from + 1)

\* the lines the second half prints for what `dart format` gave
FormatReport(dartFormatOutput) ==
    IF dartFormatOutput.kind # "null"
    THEN LET formattedFiles == ChangedCount(dartFormatOutput.text, 1)
         IN  IF formattedFiles > 0
             THEN <<"\n   " \o ToString(formattedFiles)
                      \o " files needs to be formatted.",
                    "   Run 'dart format .' command in your project to get the files formatted.">>
             ELSE <<"   No files needed formatting.">>
    ELSE <<>>

AnalyzeHeader == "\n2. Analysing Flutter format and warnings..."
AnalyzeCommand == "flutter analyze"
FormatCommand == "dart format --output=none ."

AnalyzeOutcomes ==
    {SpawnFailure,
     Ran("ok", "", ""),
     Ran("ok", "Analyzing app...\nNo issues found! (ran in 1.2s)", ""),
     Ran("fail", "info - unused import", ""),
     Ran("fail", "info - unused import", "3 issues found. (ran in 1.2s)"),
     Ran("fail", "", "1 issue found.\n12 Issues Found.")}

FormatOutcomes ==
    {SpawnFailure,
     Ran("ok", "Changed lib/a.dart\nchanged lib/b.DART\nFormatted 2 files (2 changed)", ""),
     Ran("ok", "Formatted 2 files (0 changed)", "")}

\* main line 185 and runFlutterFormatAnalysis lines 91-108
FlutterAnalyze ==
    /\ pc = "analyze"
    /\ \E p \in AnalyzeOutcomes :
         LET flutterOutput == executeCommandSync(p, FALSE)
         IN  /\ procs' = Append(procs, p)
             /\ rets' = Append(rets, flutterOutput)
             /\ cmds' = Append(cmds, AnalyzeCommand)
             /\ IF flutterOutput.kind = "throw"
                THEN /\ pc' = "thrown"
                     /\ out' = Append(out, AnalyzeHeader)
                ELSE /\ pc' = "format"
                     /\ out' = Append(out, AnalyzeHeader)
                                 \o AnalyzeReport(flutterOutput)
    /\ UNCHANGED <<argc, present, manifest, errOut, exitCode, foundFiles,
                   missingFiles, osIdx>>

\* runFlutterFormatAnalysis lines 110-120
DartFormat ==
    /\ pc = "format"
    /\ \E p \in FormatOutcomes :
         LET dartFormatOutput == executeCommandSync(p, FALSE)
         IN  /\ procs' = Append(procs, p)
             /\ rets' = Append(rets, dartFormatOutput)
             /\ cmds' = Append(cmds, FormatCommand)
             /\ IF dartFormatOutput.kind = "throw"
                THEN /\ pc' = "thrown"
                     /\ out' = out
                ELSE /\ pc' = "outdated"
                     /\ out' = out \o FormatReport(dartFormatOutput)
    /\ UNCHANGED <<argc, present, manifest, errOut, exitCode, foundFiles,
                   missingFiles, osIdx>>

-----------------------------------------------------------------------------
(* analysePubspecDependencies *)

OutdatedCommand == "dart pub outdated"

OutdatedOutcomes ==
    {SpawnFailure,
     Ran("ok", "Package Name  Current  Upgradable\nfoo  *1.0.0  *1.0.0\n\nbar  *0.1.0  -\n", ""),
     Ran("ok", "Found no outdated packages", "")}

OutdatedReport(outdatedPackages) ==
    IF outdatedPackages.kind # "null"
    THEN LET upgradablePackagesCount ==
                 parseOutdatedPackagesOutput(outdatedPackages.text)
         IN  IF upgradablePackagesCount > 0
             THEN <<"   Found " \o ToString(upgradablePackagesCount)
                      \o " packages which can be updated.",
                    "   Run 'dart pub outdated' command in your project to know more about these.">>
             ELSE <<"   All pub dependencies on respective latest versions.">>
    ELSE <<>>

\* main line 188 and analysePubspecDependencies
PubOutdated ==
    /\ pc = "outdated"
    /\ \E p \in OutdatedOutcomes :
         LET outdatedPackages == executeCommandSync(p, FALSE)
         IN  /\ procs' = Append(procs, p)
             /\ rets' = Append(rets, outdatedPackages)
             /\ cmds' = Append(cmds, OutdatedCommand)
             /\ IF outdatedPackages.kind = "throw"
                THEN /\ pc' = "thrown"
                     /\ out' = Append(out, "\n3. Analysing pubspec dependecies...")
                ELSE /\ pc' = "addpkg"
                     /\ out' = Append(out, "\n3. Analysing pubspec dependecies...")
                                 \o OutdatedReport(outdatedPackages)
    /\ UNCHANGED <<argc, present, manifest, errOut, exitCode, foundFiles,
                   missingFiles, osIdx>>

-----------------------------------------------------------------------------
(* analyseSupportedPlatforms *)

PlatformHeader == "\n4. Analysing supported platforms..."
AddCommand == "dart pub add will_it_run"
willItRunCommand == "dart run will_it_run:"
osList == <<"android", "ios", "web">>

AddedPhrase == "Add will_it_run: Resolving dependencies"
AlreadyPhrase == "\"will_it_run\" is already in \"dependencies\""

AddOutcomes ==
    {SpawnFailure,
     Ran("ok", AddedPhrase \o "...\n+ will_it_run 1.0.0", ""),
     Ran("fail", "", AlreadyPhrase \o ". Will try to update the constraint."),
     Ran("fail", "", "Could not find a file named pubspec.yaml")}

PlatformOutcomes ==
    {SpawnFailure,
     Ran("ok", "2 packages doesn't support the platform\n1 packages doesn't support it", ""),
     Ran("ok", "All packages support the platform", "")}

\* the test of line 150 on a string
HasAddPhrase(t) == includes(t, AddedPhrase) \/ includes(t, AlreadyPhrase)

\* main line 191 and analyseSupportedPlatforms lines 149-151, 163-165.
\* addWillItRun.includes raises a TypeError when addWillItRun is null.
AddWillItRun ==
    /\ pc = "addpkg"
    /\ \E p \in AddOutcomes :
         LET addWillItRun == executeCommandSync(p, FALSE)
             head == Append(out, PlatformHeader)
         IN  /\ procs' = Append(procs, p)
             /\ rets' = Append(rets, addWillItRun)
             /\ cmds' = Append(cmds, AddCommand)
             /\ IF addWillItRun.kind # "string"
                THEN /\ pc' = "thrown"
                     /\ out' = head
                     /\ osIdx' = osIdx
                ELSE IF HasAddPhrase(addWillItRun.text)
                     THEN /\ pc' = "platform"
                          /\ out' = head
                          /\ osIdx' = 1
                     ELSE /\ pc' = "finish"
                          /\ out' = Append(head, addWillItRun.text)
                          /\ osIdx' = osIdx
    /\ UNCHANGED <<argc, present, manifest, errOut, exitCode, foundFiles,
                   missingFiles>>

\* one turn of the loop of lines 153-162.  countNotSupportedPackages calls
\* input.match, which raises a TypeError when supportCheck is null.
PlatformCheck ==
    /\ pc = "platform"
    /\ \E p \in PlatformOutcomes :
         LET os == osList[osIdx]
             supportCheck == executeCommandSync(p, FALSE)
         IN  /\ procs' = Append(procs, p)
             /\ rets' = Append(rets, supportCheck)
             /\ cmds' = Append(cmds, willItRunCommand \o os)
             /\ IF supportCheck.kind # "string"
                THEN /\ pc' = "thrown"
                     /\ UNCHANGED <<out, osIdx>>
                ELSE LET packagesNotSupportedCount ==
                             countNotSupportedPackages(supportCheck.text)
                     IN  /\ out' = Append(out,
                               IF packagesNotSupportedCount > 0
                               THEN "   Found "
                                      \o ToString(packagesNotSupportedCount)
                                      \o " packages not supported for " \o os
                               ELSE "   All packages are supported for " \o os)
                         /\ IF osIdx < Len(osList)
                            THEN /\ osIdx' = osIdx + 1
                                 /\ pc' = "platform"
                            ELSE /\ osIdx' = osIdx
                                 /\ pc' = "finish"
    /\ UNCHANGED <<argc, present, manifest, errOut, exitCode, foundFiles,
                   missingFiles>>

\* main line 194, and the return
Finish ==
    /\ pc = "finish"
    /\ out' = Append(out, FinishBanner)
    /\ pc' = "done"
    /\ exitCode' = 0
    /\ UNCHANGED <<argc, present, manifest, errOut, cmds, procs, rets,
                   foundFiles, missingFiles, osIdx>>

-----------------------------------------------------------------------------
(* Specifications *)

Init == RunInit /\ UnitIdle

Next ==
    \/ Start /\ UNCHANGED unitVars
    \/ CheckDocs /\ UNCHANGED unitVars
    \/ FlutterAnalyze /\ UNCHANGED unitVars
    \/ DartFormat /\ UNCHANGED unitVars
    \/ PubOutdated /\ UNCHANGED unitVars
    \/ AddWillItRun /\ UNCHANGED unitVars
    \/ PlatformCheck /\ UNCHANGED unitVars
    \/ Finish /\ UNCHANGED unitVars

\* the runs of main
Spec == Init /\ [][Next]_vars

ParserInit == RunIdle /\ UnitInit

ParserNext ==
    \/ CallGetNumberOfAnalysisIssue /\ UNCHANGED runVars
    \/ CallParseOutdatedPackagesOutput /\ UNCHANGED runVars
    \/ CallCountNotSupportedPackages /\ UNCHANGED runVars

\* the parsers, each called once on a text made of pieces
ParserSpec == ParserInit /\ [][ParserNext]_vars

-----------------------------------------------------------------------------
(* What the claims speak of *)

Elements(xs) == {xs[i] : i \in 1..Len(xs)}

\* where in REQUIRED_FILES a file stands
RequiredIndex(file) == CHOOSE i \in 1..Len(REQUIRED_FILES) : REQUIRED_FILES[i] = file

\* the index of the first line of `out` equal to l, or 0
LineIndex(l) ==
    IF InSeq(l, out) THEN CHOOSE i \in 1..Len(out) :
                              out[i] = l /\ \A j \in 1..(i - 1) : out[j] # l
    ELSE 0

\* the lines printed after the line l
LinesAfter(l) == SubSeq(out, LineIndex(l) + 1, Len(out))

RunOver == pc \in {"done", "exited", "thrown"}

\* checkDocumentation has returned to main
DocReturned ==
    \/ pc \in {"analyze", "format", "outdated", "addpkg", "platform",
               "finish", "done"}
    \/ pc = "thrown" /\ Len(cmds) > 0

\* the length main's check of the manifest goes by
DescriptionLength ==
    IF manifest.hasDescription THEN Len(manifest.description) ELSE 0

-----------------------------------------------------------------------------
(* C1 *)

\* C1: a run of main started with exactly one argument prints the completion
\* banner whatever the file checks find (each file there or not) and
\* whatever each command does (success, non-zero exit, spawn failure): once
\* such a run is over, "Analysis finished." is among its output.
C1_RunReachesBanner ==
    (RunOver /\ argc = 1 /\ (manifest.exists => manifest.loads))
        => InSeq(FinishBanner, out)

-----------------------------------------------------------------------------
(* C2 *)

\* C2: with an argument count other than one, main prints the usage line on
\* the error stream and exits with status 1, having printed no banner and
\* run no check; with exactly one argument it prints the start banner first
\* and goes on to the checks.
C2_ArgumentValidation ==
    /\ (argc # 1 /\ pc # "start") =>
          /\ pc = "exited"
          /\ errOut = <<UsageLine>>
          /\ exitCode = 1
          /\ out = <<>>
          /\ cmds = <<>>
    /\ (argc = 1 /\ pc # "start") =>
          /\ pc # "exited"
          /\ errOut = <<>>
          /\ exitCode # 1
          /\ Len(out) >= 1
          /\ out[1] = StartBanner

C2_Witness ==
    /\ argc = 2
    /\ pc = "exited"
    /\ errOut = <<UsageLine>>
    /\ exitCode = 1

-----------------------------------------------------------------------------
(* C3 *)

\* C3 as stated: every call of executeCommandSync returns without raising;
\* it returns the captured standard-output text when the subprocess
\* succeeded and the captured standard-error text, a string, when it failed
\* (non-zero exit or spawn error).
C3_ReturnsTextAsStated ==
    \A i \in 1..Len(cmds) :
        /\ rets[i].kind # "throw"
        /\ procs[i].status = "ok" => rets[i] = Str(procs[i].stdout)
        /\ procs[i].status \in {"fail", "spawn"} => rets[i].kind = "string"

\* C3 amended: every call of executeCommandSync(command, cwd) returns without
\* raising; it returns the captured standard-output text when the subprocess
\* succeeded, the captured standard-error text when it exited non-zero, and
\* null when it could not be spawned (no stream was captured).
C3_NeverRaises ==
    \A i \in 1..Len(cmds) :
        /\ rets[i].kind # "throw"
        /\ procs[i].status = "ok" => rets[i] = Str(procs[i].stdout)
        /\ procs[i].status = "fail" => rets[i] = Str(procs[i].stderr)
        /\ procs[i].status = "spawn" => rets[i] = Null

C3_Witness ==
    /\ Len(cmds) >= 2
    /\ procs[1].status = "spawn" /\ rets[1] = Null
    /\ procs[2].status = "ok" /\ rets[2] = Str(procs[2].stdout)
    /\ \E i \in 1..Len(cmds) :
          /\ procs[i].status = "fail"
          /\ procs[i].stderr # ""
          /\ rets[i] = Str(procs[i].stderr)

-----------------------------------------------------------------------------
(* C7 *)

\* C7: whichever of the three required files are present, checkDocumentation
\* returns exactly the present ones, in the order of the required list, and
\* main's missing list is the required list without them: found and missing
\* share no file and together are the required files.  The call returns
\* whenever the manifest is absent or loads.
C7_FoundAndMissing ==
    /\ DocReturned =>
          /\ Elements(foundFiles) = present
          /\ \A i, j \in 1..Len(foundFiles) :
                i < j => RequiredIndex(foundFiles[i]) < RequiredIndex(foundFiles[j])
          /\ Elements(missingFiles) = RequiredSet \ present
          /\ \A i, j \in 1..Len(missingFiles) :
                i < j => RequiredIndex(missingFiles[i]) < RequiredIndex(missingFiles[j])
          /\ Elements(foundFiles) \cap Elements(missingFiles) = {}
          /\ Elements(foundFiles) \cup Elements(missingFiles) = RequiredSet
          /\ Len(foundFiles) + Len(missingFiles) = Len(REQUIRED_FILES)
    /\ (pc \notin {"start", "doc", "exited"} /\ (manifest.exists => manifest.loads))
          => DocReturned

C7_Witness ==
    /\ DocReturned
    /\ present = {"README.md", "LICENSE"}
    /\ foundFiles = <<"README.md", "LICENSE">>
    /\ missingFiles = <<"CONTRIBUTING.md">>
    /\ InSeq("   Missing documentation file(s): CONTRIBUTING.md.", out)

-----------------------------------------------------------------------------
(* C8 *)

\* C8: when the manifest exists (and loads), the description, empty when the
\* field is absent, is reported sufficient exactly when it is longer than 60
\* characters, so 60 is insufficient and 61 sufficient; when the manifest
\* does not exist no verdict is printed and the file list is still returned.
C8_DescriptionThreshold ==
    (pc \notin {"start", "doc", "exited"}) =>
        /\ (manifest.exists /\ manifest.loads) =>
              /\ DocReturned
              /\ InSeq(SufficientLine, out) <=> DescriptionLength > MIN_DESCRIPTION_LENGTH
              /\ InSeq(InsufficientLine, out) <=> DescriptionLength <= MIN_DESCRIPTION_LENGTH
              /\ DescriptionLength = 60 => out[3] = InsufficientLine
              /\ DescriptionLength = 61 => out[3] = SufficientLine
        /\ ~manifest.exists =>
              /\ ~InSeq(SufficientLine, out)
              /\ ~InSeq(InsufficientLine, out)
              /\ DocReturned
              /\ Elements(foundFiles) = present

C8_Witness ==
    /\ pc = "analyze"
    /\ manifest.exists
    /\ DescriptionLength = 60
    /\ out[3] = InsufficientLine

-----------------------------------------------------------------------------
(* C9 *)

\* analyseSupportedPlatforms is over: it returned, or it raised
PlatformsOver ==
    \/ pc \in {"finish", "done"}
    \/ pc = "thrown" /\ Len(cmds) >= 4

\* what the fourth section printed
PlatformLines ==
    SelectSeq(LinesAfter(PlatformHeader), LAMBDA l : l # FinishBanner)

\* C9: when the text the add-dependency command gave holds neither phrase,
\* that text is printed and no platform check is run; otherwise one platform
\* check is run and one line printed for each of android, ios and web, in
\* that order, the line giving the unsupported count when it is above 0 and
\* "all supported" otherwise.
C9_PlatformBranching ==
    (PlatformsOver /\ rets[4].kind = "string") =>
        IF ~(includes(rets[4].text, AddedPhrase) \/ includes(rets[4].text, AlreadyPhrase))
        THEN /\ Len(cmds) = 4
             /\ PlatformLines = <<rets[4].text>>
        ELSE /\ SubSeq(cmds, 5, Len(cmds))
                  = <<"dart run will_it_run:android", "dart run will_it_run:ios",
                      "dart run will_it_run:web">>
             /\ Len(PlatformLines) = 3
             /\ \A k \in 1..3 :
                   /\ rets[4 + k].kind = "string"
                   /\ LET n == countNotSupportedPackages(rets[4 + k].text)
                      IN  PlatformLines[k] =
                            IF n > 0
                            THEN "   Found " \o ToString(n)
                                   \o " packages not supported for " \o osList[k]
                            ELSE "   All packages are supported for " \o osList[k]

-----------------------------------------------------------------------------
(* C10 *)

\* C10: what the static-analysis command gave falls in exactly one of four
\* cases: null gives the one message of its own and no scan; the empty text
\* gives the execution-error message; a text whose issue counts sum to more
\* than 0 gives the count and the hint; any other text is printed, followed
\* by "no issues".  The format check runs next in each of the four.
C10_AnalysisOutcomes ==
    /\ pc = "format" =>
          LET r == rets[1]
              sec == LinesAfter(AnalyzeHeader)
          IN  /\ cmds = <<AnalyzeCommand>>
              /\ r.kind \in {"null", "string"}
              /\ r.kind = "null" => sec = <<AnalyzeNullLine>>
              /\ (r.kind = "string" /\ r.text = "") => sec = <<AnalyzeErrorLine>>
              /\ (r.kind = "string" /\ r.text # ""
                    /\ getNumberOfAnalysisIssue(r.text) > 0) =>
                    sec = <<"   Found " \o ToString(getNumberOfAnalysisIssue(r.text))
                              \o " analysis issues.", AnalyzeHintLine>>
              /\ (r.kind = "string" /\ r.text # ""
                    /\ getNumberOfAnalysisIssue(r.text) = 0) =>
                    sec = <<r.text, NoIssuesLine>>
    /\ Len(cmds) = 1 => pc = "format"
    /\ Len(cmds) >= 2 => (cmds[1] = AnalyzeCommand /\ cmds[2] = FormatCommand)

\* the analysis could not be spawned, its own message was printed, and the
\* format check ran next
C10_Witness ==
    /\ Len(cmds) >= 2
    /\ rets[1] = Null
    /\ LinesAfter(AnalyzeHeader)[1] = AnalyzeNullLine
    /\ ~InSeq(AnalyzeErrorLine, out)
    /\ cmds[2] = FormatCommand
    /\ pc = "outdated"

-----------------------------------------------------------------------------
(* The parsers' inputs, read piece by piece *)

DigitPieces == {"1", "2"}

\* the number written by the longest run of digit pieces ending at piece j
RECURSIVE RunValue(_, _)
RunValue(fs, j) ==
    IF j >= 1 /\ fs[j] \in DigitPieces
    THEN LET first == CHOOSE k \in 1..j :
                          /\ \A m \in k..j : fs[m] \in DigitPieces
                          /\ (k = 1 \/ fs[k - 1] \notin DigitPieces)
         IN  parseInt(Concat(SubSeq(fs, first, j)))
    ELSE 0

\* the places a number is followed by one of the phrases
Occurrences(fs, phrases) ==
    {j \in 2..Len(fs) : fs[j] \in phrases /\ fs[j - 1] \in DigitPieces}

RECURSIVE SumOver(_, _)
SumOver(fs, js) ==
    IF js = {} THEN 0
    ELSE LET j == CHOOSE x \in js : TRUE
         IN  RunValue(fs, j - 1) + SumOver(fs, js \ {j})

\* the lines of the text, as lists of pieces
RECURSIVE PieceLines(_, _)
PieceLines(fs, cur) ==
    IF fs = <<>> THEN <<cur>>
    ELSE IF Head(fs) = "\n" THEN <<cur>> \o PieceLines(Tail(fs), <<>>)
         ELSE PieceLines(Tail(fs), Append(cur, Head(fs)))

-----------------------------------------------------------------------------
(* C4 *)

\* C4 as stated: the result is the sum of the n_i over the occurrences of
\* "<n_i> issues found" or "<n_i> issue found" in the text, and 0 for a text
\* with no such occurrence.
C4_SumAsStated ==
    (fn = "getNumberOfAnalysisIssue" /\ result # -1) =>
        result = SumOver(frags, Occurrences(frags, IssuePhrases))

\* C4 amended: the result is the sum of the n_i over the occurrences of
\* "<n_i> issues found" or "<n_i> issue found" in the text, the words read
\* without regard to letter case, and 0 for a text with no such occurrence.
C4_SumOfIssueCounts ==
    (fn = "getNumberOfAnalysisIssue" /\ result # -1) =>
        result = SumOver(frags, Occurrences(frags, IssuePhrasesAnyCase))

\* "12 issues found1 issue found": 12 + 1
C4_Witness ==
    /\ fn = "getNumberOfAnalysisIssue"
    /\ frags = <<"1", "2", " issues found", "1", " issue found">>
    /\ result = 13

-----------------------------------------------------------------------------
(* C5 *)

\* C5: the count is the number of lines of the text that, trimmed, are not
\* empty and hold the marker '*'; a line without the marker adds nothing.
C5_CountsMarkedLines ==
    (fn = "parseOutdatedPackagesOutput" /\ result # -1) =>
        LET lines == PieceLines(frags, <<>>)
        IN  result = Cardinality({i \in 1..Len(lines) : InSeq("*", lines[i])})

C5_Witness ==
    /\ fn = "parseOutdatedPackagesOutput"
    /\ frags = <<"*", "\n", "a", "\n", "*">>
    /\ result = 2

-----------------------------------------------------------------------------
(* C6 *)

\* C6: the result is the number of the first "<n> packages doesn't support"
\* in the text, later ones being left out, and 0 when there is none.
C6_FirstMatchOnly ==
    (fn = "countNotSupportedPackages" /\ result # -1) =>
        LET occ == Occurrences(frags, {SupportPhrase})
        IN  result = IF occ = {} THEN 0
                     ELSE RunValue(frags, (CHOOSE j \in occ : \A k \in occ : j <= k) - 1)

\* "2 packages doesn't support" before "1 packages doesn't support": 2
C6_Witness ==
    /\ fn = "countNotSupportedPackages"
    /\ frags = <<"2", SupportPhrase, "1", SupportPhrase>>
    /\ result = 2

=============================================================================
